---- MODULE Spec2Model ----
(***************************************************************************)
(* Model of the cube-sphere coordinate system, the ellipsoid model and the *)
(* view-relative approximation of src/src/math.rs.                         *)
(*                                                                         *)
(* Floating-point numbers are modelled as binary fixed-point numbers with  *)
(* FracBits fractional bits: the real r is the integer round(r * One).     *)
(* Three further values stand for the IEEE specials NaN, +inf and -inf.    *)
(* Every arithmetic operation rounds to nearest, as the hardware does, so  *)
(* a round trip through two conversions is exact only where the code makes *)
(* it exact.  i32 values are unbounded integers wrapped to 32 bits where   *)
(* the code can overflow.                                                  *)
(***************************************************************************)
EXTENDS Integers, Sequences, FiniteSets, TLC

VARIABLES
    overflowChecks, \* build profile: TRUE = dev (overflow-checks on), FALSE = release
    model,          \* the TerrainModel built by setup (demo.rs:41)
    approx,         \* the TerrainModelApproximation of the last compute
    call            \* the call in progress: operation, arguments, outcome, result

vars == <<overflowChecks, model, approx, call>>

----------------------------------------------------------------------------
(* Bounds of the model.                                                    *)

FracBits == 10      \* fractional bits of the fixed-point representation
GridMax == 2        \* world positions have integer components in -GridMax..GridMax
StDen == 4          \* st inputs are the multiples of 1/StDen in [0,1]
MaxOriginLod == 1   \* origin (anchor) lods 0..MaxOriginLod
MaxLod == 2         \* tile lods 0..MaxLod
MaxCountLod == 32   \* tile_count is called with lods 0..MaxCountLod
HighLod == 16       \* the highest tile lod of the queries on high lods

----------------------------------------------------------------------------
(* Fixed-point arithmetic with IEEE special values.                        *)

One == 2^FracBits
Half == One \div 2
PosInf == 2^30
NegInf == 0 - PosInf
NaN == PosInf + 1
\* absolute tolerance 2^-7 standing for "equal up to rounding"
Tol == 2^(FracBits - 7)

Abs(a) == IF a < 0 THEN 0 - a ELSE a
Sgn(a) == IF a < 0 THEN 0 - 1 ELSE IF a > 0 THEN 1 ELSE 0
IsNaN(a) == a = NaN
IsInf(a) == a = PosInf \/ a = NegInf
IsFinite(a) == ~IsNaN(a) /\ ~IsInf(a)

\* n / d rounded to the nearest integer, ties away from zero (d # 0)
RoundDiv(n, d) ==
    LET q == (2 * Abs(n) + Abs(d)) \div (2 * Abs(d))
    IN IF (n < 0) # (d < 0) THEN 0 - q ELSE q

FromInt(n) == n * One
FromRatio(n, d) == RoundDiv(n * One, d)

FNeg(a) == IF IsNaN(a) THEN NaN ELSE 0 - a

FAdd(a, b) ==
    IF IsNaN(a) \/ IsNaN(b) THEN NaN
    ELSE IF IsInf(a) /\ IsInf(b) THEN (IF a = b THEN a ELSE NaN)
    ELSE IF IsInf(a) THEN a
    ELSE IF IsInf(b) THEN b
    ELSE a + b

FSub(a, b) == FAdd(a, FNeg(b))

FMul(a, b) ==
    IF IsNaN(a) \/ IsNaN(b) THEN NaN
    ELSE IF IsInf(a) \/ IsInf(b)
         THEN (IF a = 0 \/ b = 0 THEN NaN
               ELSE IF Sgn(a) = Sgn(b) THEN PosInf ELSE NegInf)
    ELSE RoundDiv(a * b, One)

FDiv(a, b) ==
    IF IsNaN(a) \/ IsNaN(b) THEN NaN
    ELSE IF IsInf(a) THEN (IF IsInf(b) THEN NaN
                           ELSE IF (a < 0) # (b < 0) THEN NegInf ELSE PosInf)
    ELSE IF IsInf(b) THEN 0
    ELSE IF b = 0 THEN (IF a = 0 THEN NaN ELSE IF a < 0 THEN NegInf ELSE PosInf)
    ELSE RoundDiv(a * One, b)

RECURSIVE SqrtSearch(_, _, _)
SqrtSearch(n, lo, hi) ==
    IF lo >= hi THEN lo
    ELSE LET mid == (lo + hi + 1) \div 2
         IN IF mid * mid <= n THEN SqrtSearch(n, mid, hi)
            ELSE SqrtSearch(n, lo, mid - 1)

\* the integer nearest to the square root of n >= 0
ISqrt(n) ==
    LET r == SqrtSearch(n, 0, 46340)
    IN IF n - r * r > r THEN r + 1 ELSE r

FSqrt(a) ==
    IF IsNaN(a) \/ a < 0 THEN NaN
    ELSE IF a = PosInf THEN PosInf
    ELSE ISqrt(a * One)

\* IEEE comparisons: every comparison with NaN is false
FLt(a, b) == ~IsNaN(a) /\ ~IsNaN(b) /\ a < b
FGt(a, b) == FLt(b, a)
FAbs(a) == IF IsNaN(a) THEN NaN ELSE Abs(a)

\* f64::round: nearest integer, ties away from zero
FRound(a) == IF IsFinite(a) THEN RoundDiv(a, One) * One ELSE a

\* equality up to rounding
Close(a, b) == IsFinite(a) /\ IsFinite(b) /\ Abs(a - b) <= Tol

Vec2(x, y) == [x |-> x, y |-> y]
Vec3(x, y, z) == [x |-> x, y |-> y, z |-> z]
Close2(a, b) == Close(a.x, b.x) /\ Close(a.y, b.y)

\* f64::powi for the exponents the code uses
powi(a, n) ==
    CASE n = 2 -> FMul(a, a)
      [] n = 3 -> FMul(FMul(a, a), a)
      [] n = 5 -> FMul(FMul(FMul(FMul(a, a), a), a), a)

Vec3Div(v, d) == Vec3(FDiv(v.x, d), FDiv(v.y, d), FDiv(v.z, d))
Vec3Sub(v, w) == Vec3(FSub(v.x, w.x), FSub(v.y, w.y), FSub(v.z, w.z))

\* DVec3::length and DVec3::normalize of glam: self * (1 / length)
Length(v) == FSqrt(FAdd(FAdd(FMul(v.x, v.x), FMul(v.y, v.y)), FMul(v.z, v.z)))
normalize(v) ==
    LET r == FDiv(One, Length(v))
    IN Vec3(FMul(v.x, r), FMul(v.y, r), FMul(v.z, r))

----------------------------------------------------------------------------
(* math.rs: constants and the uv <-> st warp.                              *)

C_SQR == FMul(FromRatio(87, 100), FromRatio(87, 100))

\* one matrix per side, each given by its three columns
SIDE_MATRICES ==
    << <<Vec3(0 - One, 0, 0), Vec3(0, 0, One), Vec3(0, 0 - One, 0)>>,
       <<Vec3(0, 0, One), Vec3(One, 0, 0), Vec3(0, 0 - One, 0)>>,
       <<Vec3(0, One, 0), Vec3(One, 0, 0), Vec3(0, 0, One)>>,
       <<Vec3(One, 0, 0), Vec3(0, 0 - One, 0), Vec3(0, 0, One)>>,
       <<Vec3(0, 0, 0 - One), Vec3(0, 0 - One, 0), Vec3(One, 0, 0)>>,
       <<Vec3(0, 0 - One, 0), Vec3(0, 0, One), Vec3(One, 0, 0)>> >>

\* DMat3 * DVec3: the combination of the columns
mat3_mul_vec3(sm, v) ==
    Vec3(FAdd(FAdd(FMul(sm[1].x, v.x), FMul(sm[2].x, v.y)), FMul(sm[3].x, v.z)),
         FAdd(FAdd(FMul(sm[1].y, v.x), FMul(sm[2].y, v.y)), FMul(sm[3].y, v.z)),
         FAdd(FAdd(FMul(sm[1].z, v.x), FMul(sm[2].z, v.y)), FMul(sm[3].z, v.z)))

cube_to_sphere_1(u) ==
    LET w == FMul(u, FSqrt(FDiv(FAdd(One, C_SQR),
                                FAdd(One, FMul(FMul(C_SQR, u), u)))))
    IN FAdd(FMul(Half, w), Half)

cube_to_sphere(uv) == Vec2(cube_to_sphere_1(uv.x), cube_to_sphere_1(uv.y))

\* a slip in the radicand: the constant term 1 + C_SQR written as 1
sphere_to_cube_1_unit_radicand(s) ==
    LET w == FDiv(FSub(s, Half), Half)
    IN FDiv(w, FSqrt(FSub(One, FMul(FMul(C_SQR, w), w))))

sphere_to_cube_1(s) ==
    LET w == FDiv(FSub(s, Half), Half)
    IN FDiv(w, FSqrt(FSub(FAdd(One, C_SQR), FMul(FMul(C_SQR, w), w))))

sphere_to_cube(st) == Vec2(sphere_to_cube_1(st.x), sphere_to_cube_1(st.y))

----------------------------------------------------------------------------
(* math.rs: i32 arithmetic.                                                *)

\* x << k without overflow checks: the shift amount is masked to five bits
\* and the result wraps to 32 bits (two's complement)
wrapping_shl(x, k) ==
    LET m == k % 32
    IN IF m = 0 THEN x
       ELSE LET h == 2^(31 - m)
                t == x % h
                bit == (x \div h) % 2
            IN ((t - bit * h) * 2^(m - 1)) * 2

\* with overflow checks, x << k panics for a shift amount outside 0..31
shl_overflows(k) == k < 0 \/ k >= 32

tile_count(lod) == wrapping_shl(1, lod)

\* f64 -> i32 cast of as_ivec2: truncation towards zero, NaN to 0
as_i32(a) ==
    IF IsNaN(a) THEN 0
    ELSE IF IsInf(a) THEN (IF a > 0 THEN 2147483647 ELSE 0 - 2147483647 - 1)
    ELSE Sgn(a) * (Abs(a) \div One)

----------------------------------------------------------------------------
(* math.rs: SideInfo and its projection table.                             *)

EVEN_LIST ==
    << <<"PositiveS", "PositiveT">>,
       <<"Fixed0", "PositiveT">>,
       <<"Fixed0", "PositiveS">>,
       <<"PositiveT", "PositiveS">>,
       <<"PositiveT", "Fixed0">>,
       <<"PositiveS", "Fixed0">> >>

ODD_LIST ==
    << <<"PositiveS", "PositiveT">>,
       <<"PositiveS", "Fixed1">>,
       <<"PositiveT", "Fixed1">>,
       <<"PositiveT", "PositiveS">>,
       <<"Fixed1", "PositiveS">>,
       <<"Fixed1", "PositiveT">> >>

\* a slip in the index: the distance taken from the other side
SideInfo_project_to_side_reversed(side, other_side) ==
    LET index == (6 + side - other_side) % 6
    IN IF side % 2 = 0 THEN EVEN_LIST[index + 1] ELSE ODD_LIST[index + 1]

SideInfo_project_to_side(side, other_side) ==
    LET index == (6 + other_side - side) % 6
    IN IF side % 2 = 0 THEN EVEN_LIST[index + 1] ELSE ODD_LIST[index + 1]

----------------------------------------------------------------------------
(* math.rs: TerrainModel.                                                  *)

\* A DMat4 built from a scale, the identity rotation and a translation:
\* the diagonal d and the translation column t.
from_scale_rotation_translation(scale, position) == [d |-> scale, t |-> position]

\* DMat4::inverse: adjugate times 1 / determinant.  With a zero determinant
\* the reciprocal is infinite and every entry of the product is 0 * inf or
\* has a zero cofactor in its row, so every transformed component is NaN.
inverse(m) ==
    LET det == FMul(FMul(m.d.x, m.d.y), m.d.z)
    IN IF det = 0
       THEN [d |-> Vec3(NaN, NaN, NaN), t |-> Vec3(NaN, NaN, NaN)]
       ELSE [d |-> Vec3(FDiv(One, m.d.x), FDiv(One, m.d.y), FDiv(One, m.d.z)),
             t |-> Vec3(FNeg(FDiv(m.t.x, m.d.x)),
                        FNeg(FDiv(m.t.y, m.d.y)),
                        FNeg(FDiv(m.t.z, m.d.z)))]

\* a slip in the derivative transform: a vector moved by the translation
transform_vector3_translated(m, v) ==
    Vec3(FAdd(FMul(m.d.x, v.x), m.t.x),
         FAdd(FMul(m.d.y, v.y), m.t.y),
         FAdd(FMul(m.d.z, v.z), m.t.z))

transform_vector3(m, v) ==
    Vec3(FMul(m.d.x, v.x), FMul(m.d.y, v.y), FMul(m.d.z, v.z))

transform_point3(m, p) ==
    Vec3(FAdd(FMul(m.d.x, p.x), m.t.x),
         FAdd(FMul(m.d.y, p.y), m.t.y),
         FAdd(FMul(m.d.z, p.z), m.t.z))

TerrainModel_new(position, major_axis, minor_axis) ==
    LET scale == Vec3(major_axis, minor_axis, major_axis)
        world_from_local == from_scale_rotation_translation(scale, position)
    IN [position |-> position,
        scale |-> scale,
        world_from_local |-> world_from_local,
        local_from_world |-> inverse(world_from_local)]

position_local_to_world(m, local_position) ==
    transform_point3(m.world_from_local, local_position)

position_world_to_local(m, world_position) ==
    normalize(transform_point3(m.local_from_world, world_position))

normal_local_to_world(m, local_position) ==
    normalize(transform_vector3(m.world_from_local, local_position))

----------------------------------------------------------------------------
(* math.rs: Coordinate.                                                    *)

Coordinate(side, st) == [side |-> side, st |-> st]

\* a slip that lets x win a tie: >= in place of > in the first test
select_side_x_wins_ties(normal) ==
    LET ax == FAbs(normal.x)
        ay == FAbs(normal.y)
        az == FAbs(normal.z)
    IN IF ~FLt(ax, ay) /\ ~FLt(ax, az) /\ ~IsNaN(ax)
       THEN (IF FLt(normal.x, 0) THEN 0 ELSE 3)
       ELSE IF FGt(az, ay)
       THEN (IF FGt(normal.z, 0) THEN 1 ELSE 4)
       ELSE (IF FGt(normal.y, 0) THEN 2 ELSE 5)

\* a slip in the sign test of the z branch
select_side_z_sign(normal) ==
    LET ax == FAbs(normal.x)
        ay == FAbs(normal.y)
        az == FAbs(normal.z)
    IN IF FGt(ax, ay) /\ FGt(ax, az)
       THEN (IF FLt(normal.x, 0) THEN 0 ELSE 3)
       ELSE IF FGt(az, ay)
       THEN (IF FLt(normal.z, 0) THEN 1 ELSE 4)
       ELSE (IF FGt(normal.y, 0) THEN 2 ELSE 5)

\* the chain written from the y side: equal on numbers, but a NaN falls
\* through to the x branch
select_side_y_first(normal) ==
    LET ax == FAbs(normal.x)
        ay == FAbs(normal.y)
        az == FAbs(normal.z)
    IN IF ~FLt(ay, ax) /\ ~FLt(ay, az) /\ ~IsNaN(ay)
       THEN (IF FGt(normal.y, 0) THEN 2 ELSE 5)
       ELSE IF ~FLt(az, ax) /\ ~IsNaN(az)
       THEN (IF FGt(normal.z, 0) THEN 1 ELSE 4)
       ELSE (IF FLt(normal.x, 0) THEN 0 ELSE 3)

\* the comparisons of from_world_position that select the side
select_side(normal) ==
    LET abs_normal == Vec3(FAbs(normal.x), FAbs(normal.y), FAbs(normal.z))
    IN IF FGt(abs_normal.x, abs_normal.y) /\ FGt(abs_normal.x, abs_normal.z)
       THEN (IF FLt(normal.x, 0) THEN 0 ELSE 3)
       ELSE IF FGt(abs_normal.z, abs_normal.y)
       THEN (IF FGt(normal.z, 0) THEN 1 ELSE 4)
       ELSE (IF FGt(normal.y, 0) THEN 2 ELSE 5)

\* the uv pair from_world_position computes on the selected side
side_uv(side, normal) ==
    CASE side = 0 -> Vec2(FDiv(FNeg(normal.z), normal.x), FDiv(normal.y, normal.x))
      [] side = 3 -> Vec2(FDiv(FNeg(normal.y), normal.x), FDiv(normal.z, normal.x))
      [] side = 1 -> Vec2(FDiv(normal.x, normal.z), FDiv(FNeg(normal.y), normal.z))
      [] side = 4 -> Vec2(FDiv(normal.y, normal.z), FDiv(FNeg(normal.x), normal.z))
      [] side = 2 -> Vec2(FDiv(normal.x, normal.y), FDiv(normal.z, normal.y))
      [] side = 5 -> Vec2(FDiv(FNeg(normal.z), normal.y), FDiv(FNeg(normal.x), normal.y))

from_world_position(world_position, m) ==
    LET local_position == position_world_to_local(m, world_position)
        side == select_side(local_position)
        uv == side_uv(side, local_position)
    IN Coordinate(side, cube_to_sphere(uv))

\* a slip in the formula of side 4: the formula of side 1 with z negated
cube_position_side_4(side, uv) ==
    CASE side = 0 -> Vec3(0 - One, FNeg(uv.y), uv.x)
      [] side = 1 -> Vec3(uv.x, FNeg(uv.y), One)
      [] side = 2 -> Vec3(uv.x, One, uv.y)
      [] side = 3 -> Vec3(One, FNeg(uv.x), uv.y)
      [] side = 4 -> Vec3(uv.x, FNeg(uv.y), 0 - One)
      [] side = 5 -> Vec3(uv.y, 0 - One, uv.x)

\* the per-side axis formula of world_position, before normalisation
cube_position(side, uv) ==
    CASE side = 0 -> Vec3(0 - One, FNeg(uv.y), uv.x)
      [] side = 1 -> Vec3(uv.x, FNeg(uv.y), One)
      [] side = 2 -> Vec3(uv.x, One, uv.y)
      [] side = 3 -> Vec3(One, FNeg(uv.x), uv.y)
      [] side = 4 -> Vec3(uv.y, FNeg(uv.x), 0 - One)
      [] side = 5 -> Vec3(uv.y, 0 - One, uv.x)

world_position(c, m, height) ==
    LET uv == sphere_to_cube(c.st)
        local_position == normalize(cube_position(c.side, uv))
        wp == position_local_to_world(m, local_position)
        world_normal == normal_local_to_world(m, local_position)
    IN Vec3(FAdd(wp.x, FMul(height, world_normal.x)),
            FAdd(wp.y, FMul(height, world_normal.y)),
            FAdd(wp.z, FMul(height, world_normal.z)))

\* a slip in the match: PositiveS reads the t component
project_to_side_reads_t(c, side) ==
    LET info == SideInfo_project_to_side(c.side, side)
        pick(i) == CASE i = "Fixed0" -> 0
                     [] i = "Fixed1" -> One
                     [] i = "PositiveS" -> c.st.y
                     [] i = "PositiveT" -> c.st.y
    IN Coordinate(side, Vec2(pick(info[1]), pick(info[2])))

\* a slip in the match: Fixed1 yields 0, the same as Fixed0
project_to_side_fixed1_zero(c, side) ==
    LET info == SideInfo_project_to_side(c.side, side)
        pick(i) == CASE i = "Fixed0" -> 0
                     [] i = "Fixed1" -> 0
                     [] i = "PositiveS" -> c.st.x
                     [] i = "PositiveT" -> c.st.y
    IN Coordinate(side, Vec2(pick(info[1]), pick(info[2])))

project_to_side(c, side) ==
    LET info == SideInfo_project_to_side(c.side, side)
        pick(i) == CASE i = "Fixed0" -> 0
                     [] i = "Fixed1" -> One
                     [] i = "PositiveS" -> c.st.x
                     [] i = "PositiveT" -> c.st.y
    IN Coordinate(side, Vec2(pick(info[1]), pick(info[2])))

----------------------------------------------------------------------------
(* math.rs: Tile and TerrainModelApproximation.                            *)

Tile(side, lod, x, y) == [xy |-> Vec2(x, y), lod |-> lod, side |-> side]

\* single precision keeps two fractional bits fewer than double precision
F32Step == 2^2

\* as_vec2 and every single-precision operation: round to single precision
as_f32(a) == IF IsFinite(a) THEN RoundDiv(a, F32Step) * F32Step ELSE a

as_vec3(v) == Vec3(as_f32(v.x), as_f32(v.y), as_f32(v.z))

\* i32 -> float; magnitudes beyond the fixed-point range become infinite
i32_as_float(n) ==
    IF n >= 2^(29 - FracBits) THEN PosInf
    ELSE IF n <= 0 - 2^(29 - FracBits) THEN NegInf
    ELSE FromInt(n)

\* a slip in the rounding: the index truncated, not rounded to the nearest
origin_coordinate_truncated(coordinate, origin_lod) ==
    LET tc == i32_as_float(tile_count(origin_lod))
        st == Vec2(FDiv(FromInt(as_i32(FMul(coordinate.st.x, tc))), tc),
                   FDiv(FromInt(as_i32(FMul(coordinate.st.y, tc))), tc))
    IN Coordinate(coordinate.side, st)

\* a slip in the snapping: the centre of the tile, not a point of the grid
origin_coordinate_tile_centre(coordinate, origin_lod) ==
    LET tc == i32_as_float(tile_count(origin_lod))
        st == Vec2(FDiv(FAdd(FromInt(as_i32(FMul(coordinate.st.x, tc))), Half), tc),
                   FDiv(FAdd(FromInt(as_i32(FMul(coordinate.st.y, tc))), Half), tc))
    IN Coordinate(coordinate.side, st)

origin_coordinate(coordinate, origin_lod) ==
    LET tc == i32_as_float(tile_count(origin_lod))
        st == Vec2(FDiv(FRound(FMul(coordinate.st.x, tc)), tc),
                   FDiv(FRound(FMul(coordinate.st.y, tc)), tc))
    IN Coordinate(coordinate.side, st)

\* the position below the view projected to a side and its partial
\* derivatives by s and t, as one iteration of the loop of compute derives them
side_partials(m, view_coordinate, side) ==
    LET sm == SIDE_MATRICES[side + 1]
        vc == project_to_side(view_coordinate, side)
        mat == m.world_from_local
        s == vc.st.x
        t == vc.st.y
        two == FromInt(2)
        four == FromInt(4)
        twelve == FromInt(12)

        u_denom == FSqrt(FSub(One, FMul(FMul(FMul(four, C_SQR), s), FSub(s, One))))
        u == FDiv(FSub(FMul(two, s), One), u_denom)
        u_ds == FDiv(FMul(two, FAdd(C_SQR, One)), powi(u_denom, 3))
        u_dss == FDiv(FMul(FMul(FMul(twelve, C_SQR), FAdd(C_SQR, One)),
                           FSub(FMul(two, s), One)),
                      powi(u_denom, 5))

        v_denom == FSqrt(FSub(One, FMul(FMul(FMul(four, C_SQR), t), FSub(t, One))))
        v == FDiv(FSub(FMul(two, t), One), v_denom)
        v_dt == FDiv(FMul(two, FAdd(C_SQR, One)), powi(v_denom, 3))
        v_dtt == FDiv(FMul(FMul(FMul(twelve, C_SQR), FAdd(C_SQR, One)),
                           FSub(FMul(two, t), One)),
                      powi(v_denom, 5))

        l == FSqrt(FAdd(FAdd(One, FMul(u, u)), FMul(v, v)))
        l_ds == FDiv(FMul(u, u_ds), l)
        l_dt == FDiv(FMul(v, v_dt), l)
        l_dss == FDiv(FAdd(FMul(FMul(FMul(u, u_dss), l), l),
                           FMul(FMul(FAdd(FMul(v, v), One), u_ds), u_ds)),
                      powi(l, 3))
        l_dst == FDiv(FNeg(FMul(FMul(FMul(u, v), u_ds), v_dt)), powi(l, 3))
        l_dtt == FDiv(FAdd(FMul(FMul(FMul(v, v_dtt), l), l),
                           FMul(FMul(FAdd(FMul(u, u), One), v_dt), v_dt)),
                      powi(l, 3))

        a == One
        a_ds == FNeg(l_ds)
        a_dt == FNeg(l_dt)
        a_dss == FSub(FMul(FMul(two, l_ds), l_ds), FMul(l, l_dss))
        a_dst == FSub(FMul(FMul(two, l_ds), l_dt), FMul(l, l_dst))
        a_dtt == FSub(FMul(FMul(two, l_dt), l_dt), FMul(l, l_dtt))

        b == u
        b_ds == FAdd(FMul(FNeg(u), l_ds), FMul(l, u_ds))
        b_dt == FMul(FNeg(u), l_dt)
        b_dss == FAdd(FSub(FMul(FMul(FMul(two, u), l_ds), l_ds),
                           FMul(l, FAdd(FMul(FMul(two, u_ds), l_ds), FMul(u, l_dss)))),
                      FMul(FMul(u_dss, l), l))
        b_dst == FSub(FMul(FMul(FMul(two, u), l_ds), l_dt),
                      FMul(l, FAdd(FMul(u_ds, l_dt), FMul(u, l_dst))))
        b_dtt == FSub(FMul(FMul(FMul(two, u), l_dt), l_dt), FMul(FMul(l, u), l_dtt))

        c == v
        c_ds == FMul(FNeg(v), l_ds)
        c_dt == FAdd(FMul(FNeg(v), l_dt), FMul(l, v_dt))
        c_dss == FSub(FMul(FMul(FMul(two, v), l_ds), l_ds), FMul(FMul(l, v), l_dss))
        c_dst == FSub(FMul(FMul(FMul(two, v), l_ds), l_dt),
                      FMul(l, FAdd(FMul(v_dt, l_ds), FMul(v, l_dst))))
        c_dtt == FAdd(FSub(FMul(FMul(FMul(two, v), l_dt), l_dt),
                           FMul(l, FAdd(FMul(FMul(two, v_dt), l_dt), FMul(v, l_dtt)))),
                      FMul(FMul(v_dtt, l), l))

        p == transform_point3(mat, Vec3Div(mat3_mul_vec3(sm, Vec3(a, b, c)), l))
        p_ds == transform_vector3(mat, Vec3Div(mat3_mul_vec3(sm, Vec3(a_ds, b_ds, c_ds)), powi(l, 2)))
        p_dt == transform_vector3(mat, Vec3Div(mat3_mul_vec3(sm, Vec3(a_dt, b_dt, c_dt)), powi(l, 2)))
        p_dss == transform_vector3(mat, Vec3Div(mat3_mul_vec3(sm, Vec3(a_dss, b_dss, c_dss)), powi(l, 3)))
        p_dst == transform_vector3(mat, Vec3Div(mat3_mul_vec3(sm, Vec3(a_dst, b_dst, c_dst)), powi(l, 3)))
        p_dtt == transform_vector3(mat, Vec3Div(mat3_mul_vec3(sm, Vec3(a_dtt, b_dtt, c_dtt)), powi(l, 3)))
    IN [p |-> p, p_ds |-> p_ds, p_dt |-> p_dt,
        p_dss |-> p_dss, p_dst |-> p_dst, p_dtt |-> p_dtt]

\* the SideParameter literal of the loop body (math.rs:378-389), from the
\* projected origin and view coordinates, the tile count and the partials
SideParameter(view_position, oc, vc, tc, d) ==
    [view_st |-> Vec2(as_f32(vc.st.x), as_f32(vc.st.y)),
     origin_st |-> oc.st,
     origin_xy |-> Vec2(as_i32(FMul(oc.st.x, tc)), as_i32(FMul(oc.st.y, tc))),
     delta_relative_st |-> Vec2(as_f32(FSub(oc.st.x, vc.st.x)),
                                as_f32(FSub(oc.st.y, vc.st.y))),
     c |-> as_vec3(Vec3Sub(d.p, view_position)),
     c_s |-> as_vec3(d.p_ds),
     c_t |-> as_vec3(d.p_dt),
     c_ss |-> as_vec3(Vec3Div(d.p_dss, FromInt(2))),
     c_st |-> as_vec3(d.p_dst),
     c_tt |-> as_vec3(Vec3Div(d.p_dtt, FromInt(2)))]

\* the mixed coefficient of a record halved
HalvedMixed(sp) == [sp EXCEPT !.c_st = as_vec3(Vec3Div(sp.c_st, FromInt(2)))]

\* a slip in the mixed coefficient: halved like the two pure ones
side_parameter_halved_c_st(m, view_position, view_coordinate, origin, origin_lod, side) ==
    HalvedMixed(SideParameter(view_position,
                              project_to_side(origin, side),
                              project_to_side(view_coordinate, side),
                              i32_as_float(tile_count(origin_lod)),
                              side_partials(m, view_coordinate, side)))

\* a slip in the loop body: the view coordinate is used unprojected
side_parameter_unprojected_view(m, view_position, view_coordinate, origin, origin_lod, side) ==
    SideParameter(view_position,
                  project_to_side(origin, side),
                  view_coordinate,
                  i32_as_float(tile_count(origin_lod)),
                  side_partials(m, view_coordinate, side))

\* one iteration of the loop of compute: the SideParameter of one side
side_parameter(m, view_position, view_coordinate, origin, origin_lod, side) ==
    SideParameter(view_position,
                  project_to_side(origin, side),
                  project_to_side(view_coordinate, side),
                  i32_as_float(tile_count(origin_lod)),
                  side_partials(m, view_coordinate, side))

\* SideParameter::default(): every field zero
SideParameter_default ==
    [view_st |-> Vec2(0, 0), origin_st |-> Vec2(0, 0), origin_xy |-> Vec2(0, 0),
     delta_relative_st |-> Vec2(0, 0),
     c |-> Vec3(0, 0, 0), c_s |-> Vec3(0, 0, 0), c_t |-> Vec3(0, 0, 0),
     c_ss |-> Vec3(0, 0, 0), c_st |-> Vec3(0, 0, 0), c_tt |-> Vec3(0, 0, 0)]

compute(m, view_position, origin_lod) ==
    LET view_coordinate == from_world_position(view_position, m)
        origin == origin_coordinate(view_coordinate, origin_lod)
    IN [computed |-> TRUE,
        view_position |-> view_position,
        view_coordinate |-> view_coordinate,
        model |-> m,
        origin_lod |-> origin_lod,
        sides |-> [side \in 0..5 |->
                      side_parameter(m, view_position, view_coordinate, origin,
                                     origin_lod, side)]]

relative_st_1(a, xy, vertex_offset, origin_st, lod) ==
    FDiv(as_f32(FSub(FAdd(i32_as_float(xy), vertex_offset),
                     FMul(origin_st, i32_as_float(tile_count(lod))))),
         as_f32(i32_as_float(wrapping_shl(1, a.origin_lod))))

relative_st(a, tile, vertex_offset) ==
    LET sp == a.sides[tile.side]
    IN Vec2(as_f32(relative_st_1(a, tile.xy.x, vertex_offset.x, sp.origin_st.x, tile.lod)),
            as_f32(relative_st_1(a, tile.xy.y, vertex_offset.y, sp.origin_st.y, tile.lod)))

\* the two shifts of approximate_relative_st panic when overflow checks are on
approximate_relative_st_panics(a, tile, checks) ==
    checks /\ (shl_overflows(tile.lod - a.origin_lod) \/ shl_overflows(tile.lod))

\* the integer tile offset: tile.xy - origin_xy << lod_difference, an i32
tile_offset(a, xy, origin_xy, lod) ==
    LET lod_difference == lod - a.origin_lod
    IN wrapping_shl(xy - origin_xy, lod_difference)

\* a float divided by an i32 cast to float; the divisor of the code is a
\* power of two or its negative, which the cast keeps
FDivInt(a, n) ==
    IF IsNaN(a) THEN NaN
    ELSE IF IsInf(a) THEN (IF (a < 0) # (n < 0) THEN NegInf ELSE PosInf)
    ELSE RoundDiv(a, n)

approximate_relative_st_1(a, xy, vertex_offset, origin_xy, lod) ==
    FDivInt(as_f32(FAdd(as_f32(i32_as_float(tile_offset(a, xy, origin_xy, lod))),
                        vertex_offset)),
            wrapping_shl(1, lod))

approximate_relative_st(a, tile, vertex_offset) ==
    LET sp == a.sides[tile.side]
    IN Vec2(as_f32(approximate_relative_st_1(a, tile.xy.x, vertex_offset.x,
                                             sp.origin_xy.x, tile.lod)),
            as_f32(approximate_relative_st_1(a, tile.xy.y, vertex_offset.y,
                                             sp.origin_xy.y, tile.lod)))

relative_position(a, rel_st, side) ==
    LET sp == a.sides[side]
        st == Vec2(FAdd(sp.origin_st.x, rel_st.x), FAdd(sp.origin_st.y, rel_st.y))
    IN Vec3Sub(world_position(Coordinate(side, st), a.model, 0), a.view_position)

\* single-precision product and sum
Mul32(a, b) == as_f32(FMul(a, b))
Add32(a, b) == as_f32(FAdd(a, b))
Vec3Scale32(v, k) == Vec3(Mul32(v.x, k), Mul32(v.y, k), Mul32(v.z, k))
Vec3Add32(v, w) == Vec3(Add32(v.x, w.x), Add32(v.y, w.y), Add32(v.z, w.z))

\* a slip in the translation: the delta subtracted
approximate_relative_position_minus_delta(a, rel_st, side) ==
    LET sp == a.sides[side]
        s == Add32(rel_st.x, FNeg(sp.delta_relative_st.x))
        t == Add32(rel_st.y, FNeg(sp.delta_relative_st.y))
    IN Vec3Add32(Vec3Add32(Vec3Add32(Vec3Add32(Vec3Add32(sp.c,
                 Vec3Scale32(sp.c_s, s)),
                 Vec3Scale32(sp.c_t, t)),
                 Vec3Scale32(Vec3Scale32(sp.c_ss, s), s)),
                 Vec3Scale32(Vec3Scale32(sp.c_st, s), t)),
                 Vec3Scale32(Vec3Scale32(sp.c_tt, t), t))

\* a slip in the mixed term: s * s in place of s * t
approximate_relative_position_mixed_ss(a, rel_st, side) ==
    LET sp == a.sides[side]
        s == Add32(rel_st.x, sp.delta_relative_st.x)
        t == Add32(rel_st.y, sp.delta_relative_st.y)
    IN Vec3Add32(Vec3Add32(Vec3Add32(Vec3Add32(Vec3Add32(sp.c,
                 Vec3Scale32(sp.c_s, s)),
                 Vec3Scale32(sp.c_t, t)),
                 Vec3Scale32(Vec3Scale32(sp.c_ss, s), s)),
                 Vec3Scale32(Vec3Scale32(sp.c_st, s), s)),
                 Vec3Scale32(Vec3Scale32(sp.c_tt, t), t))

approximate_relative_position(a, rel_st, side) ==
    LET sp == a.sides[side]
        s == Add32(rel_st.x, sp.delta_relative_st.x)
        t == Add32(rel_st.y, sp.delta_relative_st.y)
    IN Vec3Add32(Vec3Add32(Vec3Add32(Vec3Add32(Vec3Add32(sp.c,
                 Vec3Scale32(sp.c_s, s)),
                 Vec3Scale32(sp.c_t, t)),
                 Vec3Scale32(Vec3Scale32(sp.c_ss, s), s)),
                 Vec3Scale32(Vec3Scale32(sp.c_st, s), t)),
                 Vec3Scale32(Vec3Scale32(sp.c_tt, t), t))

\* f64::fract: the number minus its truncation
fract(a) == IF IsFinite(a) THEN a - Sgn(a) * ((Abs(a) \div One) * One) ELSE NaN

Tile_from_world_position(world, lod, m) ==
    LET coordinate == from_world_position(world, m)
        tc == i32_as_float(wrapping_shl(1, lod))
        st == Vec2(FMul(coordinate.st.x, tc), FMul(coordinate.st.y, tc))
    IN [tile |-> Tile(coordinate.side, lod, as_i32(st.x), as_i32(st.y)),
        offset |-> Vec2(as_f32(fract(st.x)), as_f32(fract(st.y)))]

----------------------------------------------------------------------------
(* Inputs.                                                                 *)

Grid == (0 - GridMax)..GridMax
WorldPositions == {Vec3(FromInt(x), FromInt(y), FromInt(z)) : x \in Grid, y \in Grid, z \in Grid}
\* the model position of demo.rs:41 and the origin
ModelPositions == {Vec3(0, 0, 0), Vec3(0, One, One)}
\* axis lengths: valid ones, zero and a negative one
AxisLengths == {FromInt(0 - 1), 0, One, FromInt(2)}
StValues == {FromRatio(k, StDen) : k \in 0..StDen}
Coordinates == {Coordinate(side, Vec2(s, t)) : side \in 0..5, s \in StValues, t \in StValues}
\* coordinates on a grid twice as fine, for the snapping to the origin grid
SnapStValues == {FromRatio(k, 2 * StDen) : k \in 0..(2 * StDen)}
SnapCoordinates ==
    {Coordinate(side, Vec2(s, t)) : side \in 0..5, s \in SnapStValues, t \in SnapStValues}
Heights == {0, One}
UvValues == {FromRatio(k, StDen) : k \in (0 - StDen)..StDen}
\* camera positions, none at the centre of the model
ViewPositions ==
    {Vec3(FromInt(3), FromInt(2), FromInt(2)), Vec3(One, FromInt(3), FromInt(2)),
     Vec3(0 - One, FromInt(2), FromInt(4)), Vec3(FromInt(0 - 3), 0, One)}
Tiles == UNION {{Tile(side, lod, x, y) : side \in 0..5, x \in 0..(2^lod - 1), y \in 0..(2^lod - 1)}
                : lod \in 0..MaxLod}
VertexOffsets == {Vec2(0, 0), Vec2(Half, Half \div 2)}
\* relative st of the position queries: the negated delta of the side of the
\* current snapshot, and offsets of up to 1/16 around the origin
RelStComponents == {0 - One \div 16, 0, One \div 16}
RelSts(a, side) ==
    IF a.computed
    THEN {Vec2(FNeg(a.sides[side].delta_relative_st.x),
               FNeg(a.sides[side].delta_relative_st.y))}
         \cup {Vec2(x, y) : x \in RelStComponents, y \in RelStComponents}
    ELSE {}
\* the tiles of the queries of SpecPosition
QueryTiles == {t \in Tiles : t.lod <= 1}

\* tiles of the two highest lods at the corners of their side
HighTiles ==
    UNION {{Tile(side, lod, x, y) : side \in 0..5, x \in {0, 1, 2^lod - 1},
                                    y \in {0, 2^lod - 1}}
           : lod \in {HighLod - 1, HighLod}}

Idle == [op |-> "idle"]
NoModel == [constructed |-> FALSE]
NoApproximation == [computed |-> FALSE]

----------------------------------------------------------------------------
(* Operations.                                                             *)

\* setup (demo.rs:41): the model is constructed once
New(position, major_axis, minor_axis) ==
    /\ call = Idle
    /\ ~model.constructed
    /\ model' = [constructed |-> TRUE] @@ TerrainModel_new(position, major_axis, minor_axis)
    /\ call' = [op |-> "new", position |-> position, major_axis |-> major_axis,
                minor_axis |-> minor_axis, outcome |-> "returned"]
    /\ UNCHANGED <<overflowChecks, approx>>

FromWorldPosition(world) ==
    /\ call = Idle
    /\ model.constructed
    /\ call' = [op |-> "from_world_position", world_position |-> world,
                outcome |-> "returned", ret |-> from_world_position(world, model)]
    /\ UNCHANGED <<overflowChecks, model, approx>>

WorldPosition(c, height) ==
    /\ call = Idle
    /\ model.constructed
    /\ call' = [op |-> "world_position", coordinate |-> c, height |-> height,
                outcome |-> "returned", ret |-> world_position(c, model, height)]
    /\ UNCHANGED <<overflowChecks, model, approx>>

ProjectToSide(c, side) ==
    /\ call = Idle
    /\ call' = [op |-> "project_to_side", coordinate |-> c, side |-> side,
                outcome |-> "returned", ret |-> project_to_side(c, side)]
    /\ UNCHANGED <<overflowChecks, model, approx>>

\* origin_coordinate (math.rs:401-408), which compute calls on the view
\* coordinate: a pure function of a coordinate and the origin lod
OriginCoordinate(c, origin_lod) ==
    /\ call = Idle
    /\ call' = [op |-> "origin_coordinate", coordinate |-> c, origin_lod |-> origin_lod,
                outcome |-> "returned", ret |-> origin_coordinate(c, origin_lod)]
    /\ UNCHANGED <<overflowChecks, model, approx>>

\* update (demo.rs:117): the snapshot is replaced as a whole
Compute(view_position, origin_lod) ==
    /\ call = Idle
    /\ model.constructed
    /\ approx' = compute(model, view_position, origin_lod)
    /\ call' = [op |-> "compute", view_position |-> view_position,
                origin_lod |-> origin_lod, outcome |-> "returned"]
    /\ UNCHANGED <<overflowChecks, model>>

\* compute step by step.  The call starts: the view coordinate, the origin
\* coordinate and the local array of six default records (math.rs:299-314)
ComputeBegin(view_position, origin_lod) ==
    /\ call = Idle
    /\ model.constructed
    /\ call' = LET view_coordinate == from_world_position(view_position, model)
               IN [op |-> "compute", outcome |-> "running",
                   view_position |-> view_position, origin_lod |-> origin_lod,
                   view_coordinate |-> view_coordinate,
                   origin_coordinate |-> origin_coordinate(view_coordinate, origin_lod),
                   sides |-> [side \in 0..5 |-> SideParameter_default],
                   side |-> 0]
    /\ UNCHANGED <<overflowChecks, model, approx>>

\* a slip that fills the records of the published snapshot in place
ComputeSide_in_place ==
    /\ call.op = "compute"
    /\ call.outcome = "running"
    /\ call.side < 6
    /\ LET sp == side_parameter(model, call.view_position, call.view_coordinate,
                                call.origin_coordinate, call.origin_lod, call.side)
       IN /\ call' = [call EXCEPT !.sides[call.side] = sp, !.side = call.side + 1]
          /\ approx' = IF approx.computed
                        THEN [approx EXCEPT !.sides[call.side] = sp]
                        ELSE approx
    /\ UNCHANGED <<overflowChecks, model>>

\* one iteration of the loop: the record of the next side is written to the
\* local array
ComputeSide ==
    /\ call.op = "compute"
    /\ call.outcome = "running"
    /\ call.side < 6
    /\ call' = [call EXCEPT
                   !.sides[call.side] =
                       side_parameter(model, call.view_position, call.view_coordinate,
                                      call.origin_coordinate, call.origin_lod, call.side),
                   !.side = call.side + 1]
    /\ UNCHANGED <<overflowChecks, model, approx>>

\* the loop is over: the snapshot is built from the locals and returned to
\* the caller, which binds it (demo.rs:116-117)
ComputeReturn ==
    /\ call.op = "compute"
    /\ call.outcome = "running"
    /\ call.side = 6
    /\ approx' = [computed |-> TRUE,
                  view_position |-> call.view_position,
                  view_coordinate |-> call.view_coordinate,
                  model |-> model,
                  origin_lod |-> call.origin_lod,
                  sides |-> call.sides]
    /\ call' = [op |-> "compute", view_position |-> call.view_position,
                origin_lod |-> call.origin_lod, outcome |-> "returned"]
    /\ UNCHANGED <<overflowChecks, model>>

RelativeSt(tile, vertex_offset) ==
    /\ call = Idle
    /\ approx.computed
    /\ call' = [op |-> "relative_st", tile |-> tile, vertex_offset |-> vertex_offset,
                outcome |-> "returned", ret |-> relative_st(approx, tile, vertex_offset)]
    /\ UNCHANGED <<overflowChecks, model, approx>>

ApproximateRelativeSt(tile, vertex_offset) ==
    /\ call = Idle
    /\ approx.computed
    /\ call' = IF approximate_relative_st_panics(approx, tile, overflowChecks)
               THEN [op |-> "approximate_relative_st", tile |-> tile,
                     vertex_offset |-> vertex_offset,
                     diagnosed |-> tile.lod - approx.origin_lod < 0,
                     outcome |-> "panicked"]
               ELSE [op |-> "approximate_relative_st", tile |-> tile,
                     vertex_offset |-> vertex_offset,
                     diagnosed |-> tile.lod - approx.origin_lod < 0,
                     outcome |-> "returned",
                     ret |-> approximate_relative_st(approx, tile, vertex_offset)]
    /\ UNCHANGED <<overflowChecks, model, approx>>

RelativePosition(rel_st, side) ==
    /\ call = Idle
    /\ approx.computed
    /\ call' = [op |-> "relative_position", relative_st |-> rel_st, side |-> side,
                outcome |-> "returned",
                ret |-> relative_position(approx, rel_st, side)]
    /\ UNCHANGED <<overflowChecks, model, approx>>

\* a slip that keeps the translated offset in the snapshot: the delta of the
\* side is overwritten with (s,t)
ApproximateRelativePosition_translates_in_place(rel_st, side) ==
    /\ call = Idle
    /\ approx.computed
    /\ call' = [op |-> "approximate_relative_position", relative_st |-> rel_st,
                side |-> side, outcome |-> "returned",
                ret |-> approximate_relative_position(approx, rel_st, side)]
    /\ approx' = [approx EXCEPT !.sides[side].delta_relative_st =
                      Vec2(Add32(rel_st.x, approx.sides[side].delta_relative_st.x),
                           Add32(rel_st.y, approx.sides[side].delta_relative_st.y))]
    /\ UNCHANGED <<overflowChecks, model>>

ApproximateRelativePosition(rel_st, side) ==
    /\ call = Idle
    /\ approx.computed
    /\ call' = [op |-> "approximate_relative_position", relative_st |-> rel_st,
                side |-> side, outcome |-> "returned",
                ret |-> approximate_relative_position(approx, rel_st, side)]
    /\ UNCHANGED <<overflowChecks, model, approx>>

CubeToSphere(uv) ==
    /\ call = Idle
    /\ call' = [op |-> "cube_to_sphere", uv |-> uv,
                outcome |-> "returned", ret |-> cube_to_sphere(uv)]
    /\ UNCHANGED <<overflowChecks, model, approx>>

SphereToCube(st) ==
    /\ call = Idle
    /\ call' = [op |-> "sphere_to_cube", st |-> st,
                outcome |-> "returned", ret |-> sphere_to_cube(st)]
    /\ UNCHANGED <<overflowChecks, model, approx>>

\* Tile::from_world_position; the shift 1 << lod panics under overflow checks
\* when lod is outside 0..31
TileFromWorldPosition(world, lod) ==
    /\ call = Idle
    /\ model.constructed
    /\ call' = IF overflowChecks /\ shl_overflows(lod)
               THEN [op |-> "tile_from_world_position", world_position |-> world,
                     lod |-> lod, outcome |-> "panicked"]
               ELSE [op |-> "tile_from_world_position", world_position |-> world,
                     lod |-> lod, outcome |-> "returned",
                     ret |-> Tile_from_world_position(world, lod, model)]
    /\ UNCHANGED <<overflowChecks, model, approx>>

\* tile_count and Tile::tile_count: 1 << lod
TileCount(lod) ==
    /\ call = Idle
    /\ call' = IF overflowChecks /\ shl_overflows(lod)
               THEN [op |-> "tile_count", lod |-> lod, outcome |-> "panicked"]
               ELSE [op |-> "tile_count", lod |-> lod, outcome |-> "returned",
                     ret |-> tile_count(lod)]
    /\ UNCHANGED <<overflowChecks, model, approx>>

\* the caller takes the result; the next call starts from the same objects
Done ==
    /\ call # Idle
    /\ call' = Idle
    /\ UNCHANGED <<overflowChecks, model, approx>>

----------------------------------------------------------------------------
(* Specifications.                                                         *)

Init ==
    /\ overflowChecks \in BOOLEAN
    /\ model = NoModel
    /\ approx = NoApproximation
    /\ call = Idle

\* the ellipsoid model and the coordinate conversions
Next ==
    \/ \E p \in ModelPositions, a \in AxisLengths, b \in AxisLengths : New(p, a, b)
    \/ \E w \in WorldPositions : FromWorldPosition(w)
    \/ \E c \in Coordinates, h \in Heights : WorldPosition(c, h)
    \/ Done

Spec == Init /\ [][Next]_vars

\* the projection between sides, a pure function of a coordinate and a side
NextProject ==
    \/ \E c \in Coordinates, side \in 0..5 : ProjectToSide(c, side)
    \/ Done

SpecProject == Init /\ [][NextProject]_vars

\* the snapping of a coordinate to the grid of the origin lod
NextSnap ==
    \/ \E c \in SnapCoordinates, lod \in 0..MaxLod : OriginCoordinate(c, lod)
    \/ Done

SpecSnap == Init /\ [][NextSnap]_vars

\* the approximation of one frame after another, on the model of the demo
InitApprox ==
    /\ overflowChecks \in BOOLEAN
    /\ model = [constructed |-> TRUE] @@ TerrainModel_new(Vec3(0, One, One), FromInt(2), One)
    /\ approx = NoApproximation
    /\ call = Idle

NextApprox ==
    \/ \E v \in ViewPositions, lod \in 0..MaxOriginLod : Compute(v, lod)
    \/ \E t \in Tiles, o \in VertexOffsets : RelativeSt(t, o)
    \/ \E t \in Tiles, o \in VertexOffsets : ApproximateRelativeSt(t, o)
    \/ Done

SpecApprox == InitApprox /\ [][NextApprox]_vars

\* the queries of one frame after another on the snapshot of the frame
NextPosition ==
    \/ \E v \in ViewPositions, lod \in 0..MaxOriginLod : Compute(v, lod)
    \/ \E t \in QueryTiles, o \in VertexOffsets : RelativeSt(t, o)
    \/ \E t \in QueryTiles, o \in VertexOffsets : ApproximateRelativeSt(t, o)
    \/ \E side \in 0..5 : \E r \in RelSts(approx, side) : RelativePosition(r, side)
    \/ \E side \in 0..5 : \E r \in RelSts(approx, side) : ApproximateRelativePosition(r, side)
    \/ Done

SpecPosition == InitApprox /\ [][NextPosition]_vars

\* one frame after another with compute taken step by step; the readers of
\* the snapshot run between two calls of compute
NextFrame ==
    \/ \E v \in ViewPositions, lod \in 0..MaxOriginLod : ComputeBegin(v, lod)
    \/ ComputeSide
    \/ ComputeReturn
    \/ \E side \in 0..5 : \E r \in RelSts(approx, side) : ApproximateRelativePosition(r, side)
    \/ Done

SpecFrame == InitApprox /\ [][NextFrame]_vars

\* the warp between uv and st, two pure functions
NextWarp ==
    \/ \E u \in UvValues, v \in UvValues : CubeToSphere(Vec2(u, v))
    \/ \E s \in StValues, t \in StValues : SphereToCube(Vec2(s, t))
    \/ Done

SpecWarp == Init /\ [][NextWarp]_vars

\* tiles and tile counts, on the model of the demo
NextTile ==
    \/ \E w \in WorldPositions, lod \in 0..MaxLod : TileFromWorldPosition(w, lod)
    \/ \E lod \in 0..MaxCountLod : TileCount(lod)
    \/ Done

SpecTile == InitApprox /\ [][NextTile]_vars

\* the integer path of approximate_relative_st on tiles of high lods
NextHighLod ==
    \/ \E v \in ViewPositions, lod \in 0..MaxOriginLod : Compute(v, lod)
    \/ \E t \in HighTiles, o \in VertexOffsets : ApproximateRelativeSt(t, o)
    \/ Done

SpecHighLod == InitApprox /\ [][NextHighLod]_vars

----------------------------------------------------------------------------
(* Properties of the approximation (SpecApprox).                           *)

\* the tile lies within the footprint of the origin tile of its side
InOriginFootprint(a, tile) ==
    LET d == tile.lod - a.origin_lod
        o == a.sides[tile.side].origin_xy
    IN /\ d >= 0
       /\ tile.xy.x \div 2^d = o.x
       /\ tile.xy.y \div 2^d = o.y

\* C1: for a tile of a lod strictly greater than the origin lod that lies
\* within the footprint of the origin tile, approximate_relative_st returns
\* the value of relative_st, up to single-precision rounding.
C1_ApproximateEqualsExact ==
    (/\ call.op = "approximate_relative_st"
     /\ call.outcome = "returned"
     /\ call.tile.lod > approx.origin_lod
     /\ InOriginFootprint(approx, call.tile))
    => Close2(call.ret, relative_st(approx, call.tile, call.vertex_offset))

\* C2: a call of approximate_relative_st with a tile lod below the origin
\* lod is reported as a failure and never returns a value.
C2_LowLodReported ==
    (/\ call.op = "approximate_relative_st"
     /\ call.tile.lod < approx.origin_lod)
    => call.outcome # "returned"

----------------------------------------------------------------------------
(* Properties of the model and the coordinate conversions (Spec).          *)

\* C3: no model with a zero or negative axis length is ever returned by
\* the constructor.
C3_NoDegenerateModel ==
    model.constructed
    => (model.scale.x > 0 /\ model.scale.y > 0 /\ model.scale.z > 0)

\* the axes of the model are positive, as the construction contract demands
ValidModel == model.constructed /\ model.scale.x > 0 /\ model.scale.y > 0

\* the inverse transform of the model exists
InvertibleModel == model.constructed /\ model.scale.x # 0 /\ model.scale.y # 0

\* the local position of the call, as from_world_position compares it
LocalOfCall == position_world_to_local(model, call.world_position)
IsNumber3(v) == IsFinite(v.x) /\ IsFinite(v.y) /\ IsFinite(v.z)
MaxAbs(n) ==
    LET ax == Abs(n.x)
        ay == Abs(n.y)
        az == Abs(n.z)
    IN IF ax >= ay /\ ax >= az THEN ax ELSE IF ay >= az THEN ay ELSE az
\* two or three axes share the greatest magnitude
IsTie(n) ==
    Cardinality({i \in {"x", "y", "z"} :
                    Abs(IF i = "x" THEN n.x ELSE IF i = "y" THEN n.y ELSE n.z) = MaxAbs(n)}) >= 2
AxisOfSide(side) == IF side \in {0, 3} THEN "x" ELSE IF side \in {1, 4} THEN "z" ELSE "y"
FromWorldPositionOfNumbers ==
    /\ call.op = "from_world_position"
    /\ IsNumber3(LocalOfCall)

\* C4 as stated: on a tie the side is an x side whenever |x| is among the
\* maxima, otherwise a z side whenever |z| is, otherwise a y side (stated
\* for the models with positive axes).
C4_TieXBeforeZBeforeY ==
    (FromWorldPositionOfNumbers /\ ValidModel /\ IsTie(LocalOfCall))
    => LET n == LocalOfCall
       IN AxisOfSide(call.ret.side) =
             (IF Abs(n.x) = MaxAbs(n) THEN "x"
              ELSE IF Abs(n.z) = MaxAbs(n) THEN "z" ELSE "y")

\* C4 amended: on a tie the side is a y side whenever |y| is among the
\* maxima, otherwise a z side (a tie of |x| and |z|): y before z before x.
C4_TieYBeforeZBeforeX ==
    (FromWorldPositionOfNumbers /\ IsTie(LocalOfCall))
    => LET n == LocalOfCall
       IN AxisOfSide(call.ret.side) =
             (IF Abs(n.y) = MaxAbs(n) THEN "y"
              ELSE IF Abs(n.z) = MaxAbs(n) THEN "z" ELSE "x")

\* a tie of |x| and |z| above |y|, resolved to a z side
C4_Witness ==
    /\ FromWorldPositionOfNumbers
    /\ Abs(LocalOfCall.x) = Abs(LocalOfCall.z)
    /\ Abs(LocalOfCall.x) > Abs(LocalOfCall.y)
    /\ call.ret.side \in {1, 4}

\* C5: for a non-zero local position the side belongs to an axis of the
\* greatest magnitude and has the sign of that component: 0/3 for -x/+x,
\* 1/4 for +z/-z, 2/5 for +y/-y.
C5_SideIsDominantAxis ==
    FromWorldPositionOfNumbers
    => LET n == LocalOfCall
           side == call.ret.side
       IN /\ side = 0 => (n.x < 0 /\ Abs(n.x) = MaxAbs(n))
          /\ side = 3 => (n.x > 0 /\ Abs(n.x) = MaxAbs(n))
          /\ side = 1 => (n.z > 0 /\ Abs(n.z) = MaxAbs(n))
          /\ side = 4 => (n.z < 0 /\ Abs(n.z) = MaxAbs(n))
          /\ side = 2 => (n.y > 0 /\ Abs(n.y) = MaxAbs(n))
          /\ side = 5 => (n.y < 0 /\ Abs(n.y) = MaxAbs(n))
          /\ side \in 0..5

\* a position whose z component is negative and strictly dominant
C5_Witness ==
    /\ FromWorldPositionOfNumbers
    /\ LocalOfCall.z < 0
    /\ Abs(LocalOfCall.z) > Abs(LocalOfCall.x)
    /\ Abs(LocalOfCall.z) > Abs(LocalOfCall.y)
    /\ LocalOfCall.x # 0
    /\ call.ret.side = 4

StrictlyInside(st) == st.x > 0 /\ st.x < One /\ st.y > 0 /\ st.y < One

\* the round trip of C6 applies: a coordinate strictly inside its side, at
\* height 0, on a model whose inverse transform exists
RoundTripCase ==
    /\ call.op = "world_position"
    /\ call.height = 0
    /\ StrictlyInside(call.coordinate.st)
    /\ InvertibleModel

\* C6: from_world_position of the world position of a coordinate strictly
\* inside its side returns the side and, up to rounding, the st of the
\* coordinate.
C6_RoundTrip ==
    RoundTripCase
    => LET back == from_world_position(call.ret, model)
       IN /\ back.side = call.coordinate.side
          /\ Close2(back.st, call.coordinate.st)

\* a round trip on side 4 off the diagonal, on a flattened, displaced model
C6_Witness ==
    /\ RoundTripCase
    /\ call.coordinate.side = 4
    /\ call.coordinate.st.x # call.coordinate.st.y
    /\ model.scale.x # model.scale.y
    /\ model.position # Vec3(0, 0, 0)

InUnitInterval(a) == IsFinite(a) /\ a >= 0 /\ a <= One

\* C9: every coordinate from_world_position returns has a side in 0..5 and
\* both st components in [0,1].  Stated for the models with positive axes,
\* so that a violation does not rest on a degenerate model.
C9_CoordinateInRange ==
    (call.op = "from_world_position" /\ ValidModel)
    => /\ call.ret.side \in 0..5
       /\ InUnitInterval(call.ret.st.x)
       /\ InUnitInterval(call.ret.st.y)

\* C10: from_world_position always returns; for a local position of zero
\* magnitude (every comparison is false) the side is the last one of the
\* chain of tests, side 5, and on an exact tie it is a side of one of the
\* tied axes.
C10_NeverFails ==
    call.op = "from_world_position"
    => /\ call.outcome = "returned"
       /\ call.ret.side \in 0..5
       /\ ~IsNumber3(LocalOfCall) => call.ret.side = 5
       /\ (IsNumber3(LocalOfCall) /\ IsTie(LocalOfCall))
          => LET n == LocalOfCall
                 axis == AxisOfSide(call.ret.side)
             IN Abs(IF axis = "x" THEN n.x ELSE IF axis = "y" THEN n.y ELSE n.z) = MaxAbs(n)

\* the world position is the centre of a model with positive axes
C10_Witness ==
    /\ call.op = "from_world_position"
    /\ ValidModel
    /\ call.world_position = model.position
    /\ ~IsNumber3(LocalOfCall)
    /\ call.outcome = "returned"

----------------------------------------------------------------------------
(* Properties of the projection between sides (SpecProject).               *)

\* C7: projecting a coordinate onto its own side returns it unchanged.
C7_OwnSideIdentity ==
    (call.op = "project_to_side" /\ call.side = call.coordinate.side)
    => call.ret = call.coordinate

C7_Witness ==
    /\ call.op = "project_to_side"
    /\ call.side = call.coordinate.side
    /\ call.side = 3
    /\ call.coordinate.st.x # call.coordinate.st.y

\* squared distance of two cube positions
Dist2(p, q) ==
    FAdd(FAdd(FMul(FSub(p.x, q.x), FSub(p.x, q.x)),
              FMul(FSub(p.y, q.y), FSub(p.y, q.y))),
         FMul(FSub(p.z, q.z), FSub(p.z, q.z)))

CubePositionOf(c) == cube_position(c.side, sphere_to_cube(c.st))

\* C8: the projection lies on the target side, and no coordinate of the
\* target side has a cube position closer to the cube position of the source
\* coordinate.
C8_ClosestOnTarget ==
    call.op = "project_to_side"
    => /\ call.ret.side = call.side
       /\ InUnitInterval(call.ret.st.x)
       /\ InUnitInterval(call.ret.st.y)
       /\ \A s \in StValues, t \in StValues :
             Dist2(CubePositionOf(call.ret), CubePositionOf(call.coordinate))
                <= Dist2(CubePositionOf(Coordinate(call.side, Vec2(s, t))),
                         CubePositionOf(call.coordinate))

\* a projection from an odd side onto an adjacent side, off the diagonal
C8_Witness ==
    /\ call.op = "project_to_side"
    /\ call.coordinate.side = 1
    /\ call.side = 5
    /\ StrictlyInside(call.coordinate.st)
    /\ call.coordinate.st.x # call.coordinate.st.y

----------------------------------------------------------------------------
(* Properties of tiles (SpecTile).                                         *)

InHalfOpenUnit(a) == IsFinite(a) /\ a >= 0 /\ a < One

\* C11: for a world position off the centre of the model, the tile of
\* Tile::from_world_position has x and y in [0, 2^lod) and the vertex offset
\* has both components in [0, 1), also on a side boundary (st = 1).
C11_TileInRange ==
    (/\ call.op = "tile_from_world_position"
     /\ call.outcome = "returned"
     /\ IsNumber3(LocalOfCall))
    => /\ call.ret.tile.xy.x \in 0..(2^call.lod - 1)
       /\ call.ret.tile.xy.y \in 0..(2^call.lod - 1)
       /\ InHalfOpenUnit(call.ret.offset.x)
       /\ InHalfOpenUnit(call.ret.offset.y)

\* halving n exactly k times gives 1: n = 2^k
RECURSIVE IsPowerOfTwo(_, _)
IsPowerOfTwo(n, k) ==
    IF k = 0 THEN n = 1
    ELSE n > 0 /\ n % 2 = 0 /\ IsPowerOfTwo(n \div 2, k - 1)

\* C12: for every lod >= 0, tile_count returns the positive number 2^lod.
C12_TileCountIsPower ==
    call.op = "tile_count"
    => /\ call.outcome = "returned"
       /\ call.ret > 0
       /\ IsPowerOfTwo(call.ret, call.lod)

----------------------------------------------------------------------------
(* Properties of the warp (SpecWarp).                                      *)

\* the st value of the uv values -1, 0 and 1
EndpointOf(u) == IF u = 0 - One THEN 0 ELSE IF u = 0 THEN Half ELSE One

\* C15: cube_to_sphere and sphere_to_cube are inverses up to rounding, on
\* st in [0,1]^2 and on uv in [-1,1]^2, and the uv values -1, 0, 1 correspond
\* to the st values 0, 0.5, 1 exactly, in both directions.
C15_WarpInverse ==
    /\ call.op = "sphere_to_cube"
       => /\ Close2(cube_to_sphere(call.ret), call.st)
          /\ \A u \in {0 - One, 0, One} :
                /\ call.st.x = EndpointOf(u) => call.ret.x = u
                /\ call.st.y = EndpointOf(u) => call.ret.y = u
    /\ call.op = "cube_to_sphere"
       => /\ Close2(sphere_to_cube(call.ret), call.uv)
          /\ \A u \in {0 - One, 0, One} :
                /\ call.uv.x = u => call.ret.x = EndpointOf(u)
                /\ call.uv.y = u => call.ret.y = EndpointOf(u)

\* a uv pair off the axes and off the diagonal whose st is warped
C15_Witness ==
    /\ call.op = "cube_to_sphere"
    /\ call.uv.x > 0 /\ call.uv.x < One
    /\ call.uv.y < 0 /\ call.uv.y > 0 - One
    /\ call.uv.x # 0 - call.uv.y
    /\ call.ret.x # FAdd(FMul(Half, call.uv.x), Half)
    /\ Close2(sphere_to_cube(call.ret), call.uv)

----------------------------------------------------------------------------
(* Properties of the position queries (SpecPosition).                      *)

NegDelta(a, side) ==
    Vec2(FNeg(a.sides[side].delta_relative_st.x), FNeg(a.sides[side].delta_relative_st.y))

\* the greatest componentwise distance of two vectors of numbers
Dist3(p, q) ==
    LET dx == Abs(p.x - q.x)
        dy == Abs(p.y - q.y)
        dz == Abs(p.z - q.z)
    IN IF dx >= dy /\ dx >= dz THEN dx ELSE IF dy >= dz THEN dy ELSE dz

\* tolerance of a position computed by a chain of single-precision operations
PosTol == 4 * F32Step

\* equality of two positions up to single-precision rounding
Close3(p, q) == IsNumber3(p) /\ IsNumber3(q) /\ Dist3(p, q) <= PosTol

\* the query of C13: the approximation evaluated at the negated delta
AtViewPoint ==
    /\ call.op = "approximate_relative_position"
    /\ call.relative_st = NegDelta(approx, call.side)

\* C13: at relative_st = -delta_relative_st of a side, the approximation
\* returns the stored coefficient c of the side, and c equals relative_position
\* at the same relative st and side up to single-precision rounding.
C13_ExactAtViewPoint ==
    AtViewPoint
    => /\ call.ret = approx.sides[call.side].c
       /\ Close3(call.ret, relative_position(approx, call.relative_st, call.side))

\* the query on a side other than the side of the view, with a non-zero delta
C13_Witness ==
    /\ AtViewPoint
    /\ call.side # approx.view_coordinate.side
    /\ call.relative_st.x # 0
    /\ call.relative_st.y # 0
    /\ approx.sides[call.side].c_s # Vec3(0, 0, 0)

Vec3Scale(v, k) == Vec3(FMul(v.x, k), FMul(v.y, k), FMul(v.z, k))
Vec3Add(v, w) == Vec3(FAdd(v.x, w.x), FAdd(v.y, w.y), FAdd(v.z, w.z))

\* the second-order polynomial of the coefficients of a side, in double precision
Polynomial(sp, s, t) ==
    Vec3Add(Vec3Add(Vec3Add(Vec3Add(Vec3Add(sp.c,
            Vec3Scale(sp.c_s, s)),
            Vec3Scale(sp.c_t, t)),
            Vec3Scale(sp.c_ss, FMul(s, s))),
            Vec3Scale(sp.c_st, FMul(s, t))),
            Vec3Scale(sp.c_tt, FMul(t, t)))

\* the st of the view coordinate projected to a side
ProjectedViewSt(a, side) == project_to_side(a.view_coordinate, side).st

\* equality of two numbers up to one rounding to single precision
Close32(x, y) == IsFinite(x) /\ IsFinite(y) /\ 2 * Abs(x - y) <= F32Step

\* C19: approximate_relative_position returns, up to single-precision
\* rounding, c + c_s*s + c_t*t + c_ss*s^2 + c_st*s*t + c_tt*t^2 with
\* (s,t) = relative_st + delta, where the stored delta_relative_st of the
\* side is origin_st minus the st of the view coordinate projected to the
\* side, so that (s,t) is the offset of the queried st (origin_st +
\* relative_st) from the projected view coordinate.
C19_PolynomialOfOffset ==
    call.op = "approximate_relative_position"
    => LET sp == approx.sides[call.side]
           vst == ProjectedViewSt(approx, call.side)
           delta == Vec2(FSub(sp.origin_st.x, vst.x), FSub(sp.origin_st.y, vst.y))
           queried == Vec2(FAdd(sp.origin_st.x, call.relative_st.x),
                           FAdd(sp.origin_st.y, call.relative_st.y))
           s == FSub(queried.x, vst.x)
           t == FSub(queried.y, vst.y)
       IN /\ Close32(sp.delta_relative_st.x, delta.x)
          /\ Close32(sp.delta_relative_st.y, delta.y)
          /\ Close3(call.ret, Polynomial(sp, s, t))

\* a query whose offsets s and t differ and whose mixed term counts
C19_Witness ==
    /\ call.op = "approximate_relative_position"
    /\ LET sp == approx.sides[call.side]
           s == FAdd(call.relative_st.x, sp.delta_relative_st.x)
           t == FAdd(call.relative_st.y, sp.delta_relative_st.y)
       IN /\ s # 0 /\ t # 0 /\ s # t
          /\ Dist3(Vec3Scale(sp.c_st, FMul(s, t)), Vec3(0, 0, 0)) > PosTol
          /\ Dist3(Vec3Scale(sp.c_st, FMul(s, t)), Vec3Scale(sp.c_st, FMul(s, s))) > 2 * PosTol

----------------------------------------------------------------------------
(* Properties of the snapshot of compute (SpecPosition).                   *)

\* the partial derivatives compute derives for a side of the snapshot
PartialsOf(a, side) == side_partials(a.model, a.view_coordinate, side)

Close32Vec3(p, q) == Close32(p.x, q.x) /\ Close32(p.y, q.y) /\ Close32(p.z, q.z)
HalfOfVec3(v) == Vec3Div(v, FromInt(2))

\* compute has just returned the snapshot
Computed == call.op = "compute" /\ call.outcome = "returned" /\ approx.computed

\* C18 as stated: each of the three stored second-order coefficients is one
\* half of the corresponding second partial derivative of the position.
C18_AllSecondOrderHalved ==
    Computed
    => \A side \in 0..5 :
          LET d == PartialsOf(approx, side)
              sp == approx.sides[side]
          IN /\ Close32Vec3(sp.c_ss, HalfOfVec3(d.p_dss))
             /\ Close32Vec3(sp.c_st, HalfOfVec3(d.p_dst))
             /\ Close32Vec3(sp.c_tt, HalfOfVec3(d.p_dtt))

\* C18 amended: the two pure coefficients c_ss and c_tt are one half of the
\* second partial derivatives by s and by t; the mixed coefficient c_st is
\* the mixed second partial derivative itself.
C18_PureHalvedMixedWhole ==
    Computed
    => \A side \in 0..5 :
          LET d == PartialsOf(approx, side)
              sp == approx.sides[side]
          IN /\ Close32Vec3(sp.c_ss, HalfOfVec3(d.p_dss))
             /\ Close32Vec3(sp.c_st, d.p_dst)
             /\ Close32Vec3(sp.c_tt, HalfOfVec3(d.p_dtt))

\* a snapshot with a side whose three second partial derivatives are above 1/2
C18_Witness ==
    /\ Computed
    /\ \E side \in 0..5 :
          LET d == PartialsOf(approx, side)
          IN /\ Dist3(d.p_dst, Vec3(0, 0, 0)) > Half
             /\ Dist3(d.p_dss, Vec3(0, 0, 0)) > Half
             /\ Dist3(d.p_dtt, Vec3(0, 0, 0)) > Half
             /\ approx.sides[side].c_st # approx.sides[side].c_ss

\* x is a point of the tile grid of the lod: k / 2^lod with k in 0..2^lod
OnGrid(x, lod) == \E k \in 0..(2^lod) : x * 2^lod = FromInt(k) /\ IsFinite(x)

\* C20: the origin st on the side of the view is the point of the grid of
\* the origin lod nearest to the view st (the rounded index divided back),
\* and on every side origin_xy is the integer pair origin_st * 2^origin_lod,
\* exactly: origin_st lies on the grid on all six sides.
C20_OriginOnGrid ==
    Computed
    => LET lod == approx.origin_lod
           view == approx.view_coordinate
           origin_st == approx.sides[view.side].origin_st
       IN /\ 2 * Abs(view.st.x * 2^lod - origin_st.x * 2^lod) <= One
          /\ 2 * Abs(view.st.y * 2^lod - origin_st.y * 2^lod) <= One
          /\ \A side \in 0..5 :
                LET sp == approx.sides[side]
                IN /\ OnGrid(sp.origin_st.x, lod)
                   /\ OnGrid(sp.origin_st.y, lod)
                   /\ FromInt(sp.origin_xy.x) = sp.origin_st.x * 2^lod
                   /\ FromInt(sp.origin_xy.y) = sp.origin_st.y * 2^lod

\* a snapshot of an origin lod above 0 whose view index is rounded up on one
\* component and down on the other
C20_Witness ==
    /\ Computed
    /\ approx.origin_lod >= 1
    /\ LET view == approx.view_coordinate
           origin_st == approx.sides[view.side].origin_st
       IN \/ origin_st.x > view.st.x /\ origin_st.y < view.st.y
          \/ origin_st.x < view.st.x /\ origin_st.y > view.st.y

----------------------------------------------------------------------------
(* Properties of the snapshot over the frames (SpecFrame, SpecPosition).   *)

\* C16: every snapshot a reader can observe, also while a compute call is
\* under way, has its view coordinate and all six records produced by one
\* compute call for its view position and origin lod; no snapshot mixes
\* records of two view positions.
C16_SnapshotOfOneCompute ==
    approx.computed
    => LET view_coordinate == from_world_position(approx.view_position, approx.model)
           origin == origin_coordinate(view_coordinate, approx.origin_lod)
       IN /\ approx.model = model
          /\ approx.view_coordinate = view_coordinate
          /\ \A side \in 0..5 :
                approx.sides[side] =
                    side_parameter(approx.model, approx.view_position, view_coordinate,
                                   origin, approx.origin_lod, side)

\* a compute call for a new view position has written three of its records
\* while the snapshot of the previous view position is the observable one
C16_Witness ==
    /\ approx.computed
    /\ call.op = "compute"
    /\ call.outcome = "running"
    /\ call.side = 3
    /\ call.view_position # approx.view_position
    /\ call.sides[0] # approx.sides[0]

QueryOps ==
    {"relative_st", "approximate_relative_st", "relative_position",
     "approximate_relative_position"}

\* the result of the query of a call record, evaluated on a snapshot
ResultOn(a, c) ==
    CASE c.op = "relative_st" -> relative_st(a, c.tile, c.vertex_offset)
      [] c.op = "approximate_relative_st" -> approximate_relative_st(a, c.tile, c.vertex_offset)
      [] c.op = "relative_position" -> relative_position(a, c.relative_st, c.side)
      [] c.op = "approximate_relative_position" ->
            approximate_relative_position(a, c.relative_st, c.side)

\* C17: a step that runs one of the four queries, and the step that hands
\* its result to the caller, leave the snapshot and the model unchanged, and
\* the result is the value of the query on the snapshot the step leaves
\* behind: a later call with the same snapshot and arguments returns the same.
C17_QueriesReadOnly ==
    [][/\ (call'.op \in QueryOps \/ call.op \in QueryOps)
          => (approx' = approx /\ model' = model)
       /\ (call'.op \in QueryOps /\ call'.outcome = "returned")
          => call'.ret = ResultOn(approx', call')]_vars

\* a query has returned a non-zero position on a computed snapshot
C17_Witness ==
    /\ call.op = "approximate_relative_position"
    /\ call.outcome = "returned"
    /\ approx.computed
    /\ call.relative_st # Vec2(0, 0)
    /\ call.ret # approx.sides[call.side].c

\* the cube position p lies on the face of the cube with the given side
OnSide(p, side) ==
    CASE side = 0 -> p.x = 0 - One
      [] side = 3 -> p.x = One
      [] side = 1 -> p.z = One
      [] side = 4 -> p.z = 0 - One
      [] side = 2 -> p.y = One
      [] side = 5 -> p.y = 0 - One

OppositeSide(side) == (side + 3) % 6

IsFixed(i) == i \in {"Fixed0", "Fixed1"}

\* C21: for a projection from side A onto an adjacent side B the table fixes
\* exactly one component at 0 or 1, the result lies on the edge B shares
\* with A, and its projection back onto A lies on the edge A shares with B
\* at the same cube position; a projection onto the opposite side and back
\* returns the coordinate it started from.
C21_EdgeSharing ==
    call.op = "project_to_side"
    => LET a == call.coordinate.side
           b == call.side
           info == SideInfo_project_to_side(a, b)
           back == project_to_side(call.ret, a)
       IN /\ (b # a /\ b # OppositeSide(a))
             => /\ IsFixed(info[1]) # IsFixed(info[2])
                /\ OnSide(CubePositionOf(call.ret), a)
                /\ OnSide(CubePositionOf(call.ret), b)
                /\ back.side = a
                /\ OnSide(CubePositionOf(back), b)
                /\ CubePositionOf(back) = CubePositionOf(call.ret)
          /\ b = OppositeSide(a) => back = call.coordinate

\* a projection from the inside of an even side onto an adjacent odd side
C21_Witness ==
    /\ call.op = "project_to_side"
    /\ call.coordinate.side = 2
    /\ call.side = 1
    /\ StrictlyInside(call.coordinate.st)
    /\ call.coordinate.st.x # call.coordinate.st.y

\* a projection from the inside of a side onto the opposite side
C21_WitnessOpposite ==
    /\ call.op = "project_to_side"
    /\ call.side = OppositeSide(call.coordinate.side)
    /\ StrictlyInside(call.coordinate.st)
    /\ call.coordinate.st.x # call.coordinate.st.y

----------------------------------------------------------------------------
(* Two calls of compute on translated inputs (SpecPosition).               *)

\* translations of the model and the view by whole units, which the
\* arithmetic of the model adds and scales without rounding
WholeTranslations == {Vec3(One, 0, FromInt(2)), Vec3(0, 0 - One, 0 - One)}

\* translations by fractions, which the two calls round differently
FractionTranslations ==
    {Vec3(One \div 3, 0 - One, One \div 12), Vec3(One \div 3, One \div 5, One \div 7)}

Translations == WholeTranslations \cup FractionTranslations

\* the model moved by a translation, its axes unchanged
TranslatedModel(m, tr) == TerrainModel_new(Vec3Add(m.position, tr), m.scale.x, m.scale.y)

\* the snapshot compute returns for the model and the view both moved
TranslatedSnapshot(a, tr) ==
    compute(TranslatedModel(a.model, tr), Vec3Add(a.view_position, tr), a.origin_lod)

\* c and the five derivative coefficients of two records are identical
SameCoefficients(sp, sq) ==
    /\ sp.c_s = sq.c_s /\ sp.c_t = sq.c_t
    /\ sp.c_ss = sq.c_ss /\ sp.c_st = sq.c_st /\ sp.c_tt = sq.c_tt
    /\ sp.c = sq.c

CloseVec3(p, q) == Close(p.x, q.x) /\ Close(p.y, q.y) /\ Close(p.z, q.z)

\* c and the five derivative coefficients of two records agree up to rounding
CloseCoefficients(sp, sq) ==
    /\ CloseVec3(sp.c_s, sq.c_s) /\ CloseVec3(sp.c_t, sq.c_t)
    /\ CloseVec3(sp.c_ss, sq.c_ss) /\ CloseVec3(sp.c_st, sq.c_st)
    /\ CloseVec3(sp.c_tt, sq.c_tt)
    /\ CloseVec3(sp.c, sq.c)

----------------------------------------------------------------------------
(* relative_st against the absolute st of the vertex (SpecPosition).       *)

\* the absolute st of a vertex of a tile: (tile.xy + offset) / 2^tile.lod
VertexSt(tile, vertex_offset) ==
    Vec2(FDiv(FAdd(FromInt(tile.xy.x), vertex_offset.x), FromInt(2^tile.lod)),
         FDiv(FAdd(FromInt(tile.xy.y), vertex_offset.y), FromInt(2^tile.lod)))

\* C23: for a tile at or above the origin lod and every vertex offset, the
\* origin st of the side of the tile plus relative_st(tile, offset) is the
\* absolute st of the vertex, (tile.xy + offset) / 2^tile.lod.
C23_OriginPlusRelativeIsVertex ==
    (/\ call.op = "relative_st"
     /\ call.outcome = "returned"
     /\ call.tile.lod >= approx.origin_lod)
    => LET sp == approx.sides[call.tile.side]
       IN Close2(Vec2(FAdd(sp.origin_st.x, call.ret.x), FAdd(sp.origin_st.y, call.ret.y)),
                 VertexSt(call.tile, call.vertex_offset))

\* the same for tiles of the origin lod only
C23_AtOriginLod ==
    (/\ call.op = "relative_st"
     /\ call.outcome = "returned"
     /\ call.tile.lod = approx.origin_lod)
    => LET sp == approx.sides[call.tile.side]
       IN Close2(Vec2(FAdd(sp.origin_st.x, call.ret.x), FAdd(sp.origin_st.y, call.ret.y)),
                 VertexSt(call.tile, call.vertex_offset))

----------------------------------------------------------------------------
(* The stored delta of every side (SpecPosition).                          *)

\* the magnitude of x is at most half a tile of the origin lod
WithinHalfTile(x, origin_lod) == IsFinite(x) /\ 2 * Abs(x) * 2^origin_lod <= One

\* C24: in the snapshot compute returns, on every side, each component of
\* delta_relative_st has a magnitude of at most 1 / (2 * 2^origin_lod), and
\* is exactly 0 where the projection to the side fixes the component at 0
\* or 1.
C24_DeltaWithinHalfTile ==
    Computed
    => \A side \in 0..5 :
          LET delta == approx.sides[side].delta_relative_st
              info == SideInfo_project_to_side(approx.view_coordinate.side, side)
          IN /\ WithinHalfTile(delta.x, approx.origin_lod)
             /\ WithinHalfTile(delta.y, approx.origin_lod)
             /\ IsFixed(info[1]) => delta.x = 0
             /\ IsFixed(info[2]) => delta.y = 0

\* a snapshot of origin lod 1 whose view is off the grid in both components:
\* the delta of the view's side is non-zero in both, and an adjacent side has
\* one component fixed and the other non-zero
C24_Witness ==
    /\ Computed
    /\ approx.origin_lod = 1
    /\ LET delta == approx.sides[approx.view_coordinate.side].delta_relative_st
       IN delta.x # 0 /\ delta.y # 0
    /\ \E side \in 0..5 :
          LET delta == approx.sides[side].delta_relative_st
              info == SideInfo_project_to_side(approx.view_coordinate.side, side)
          IN IsFixed(info[1]) /\ ~IsFixed(info[2]) /\ delta.y # 0

----------------------------------------------------------------------------
(* The integer arithmetic of approximate_relative_st (SpecHighLod).        *)

\* w is x * 2^k as an unbounded integer: shifting w back recovers x
ExactShift(x, k, w) == w % 2^k = 0 /\ w \div 2^k = x

\* the tile lies on its side: 0 <= xy < 2^lod in both components
TileOnSide(tile) ==
    /\ tile.xy.x >= 0 /\ tile.xy.x < 2^tile.lod
    /\ tile.xy.y >= 0 /\ tile.xy.y < 2^tile.lod

\* C25: for origin lod <= tile.lod <= 30 and tile.xy in [0, 2^tile.lod)^2
\* the tile offset (tile.xy - origin_xy) << (tile.lod - origin_lod) and the
\* divisor 1 << tile.lod of approximate_relative_st are the unbounded-integer
\* results, with no wrap-around of the 32-bit signed arithmetic.
C25_NoWrapAround ==
    (/\ call.op = "approximate_relative_st"
     /\ call.tile.lod >= approx.origin_lod
     /\ call.tile.lod <= 30
     /\ TileOnSide(call.tile))
    => LET sp == approx.sides[call.tile.side]
           k == call.tile.lod - approx.origin_lod
       IN /\ ExactShift(call.tile.xy.x - sp.origin_xy.x, k,
                        tile_offset(approx, call.tile.xy.x, sp.origin_xy.x, call.tile.lod))
          /\ ExactShift(call.tile.xy.y - sp.origin_xy.y, k,
                        tile_offset(approx, call.tile.xy.y, sp.origin_xy.y, call.tile.lod))
          /\ wrapping_shl(1, call.tile.lod) = 2^call.tile.lod

\* the same for tiles whose offset fits: 2 * tile.lod - origin_lod <= 30
C25_NoWrapAroundLowLod ==
    (/\ call.op = "approximate_relative_st"
     /\ call.tile.lod >= approx.origin_lod
     /\ 2 * call.tile.lod - approx.origin_lod <= 30
     /\ TileOnSide(call.tile))
    => LET sp == approx.sides[call.tile.side]
           k == call.tile.lod - approx.origin_lod
       IN /\ ExactShift(call.tile.xy.x - sp.origin_xy.x, k,
                        tile_offset(approx, call.tile.xy.x, sp.origin_xy.x, call.tile.lod))
          /\ ExactShift(call.tile.xy.y - sp.origin_xy.y, k,
                        tile_offset(approx, call.tile.xy.y, sp.origin_xy.y, call.tile.lod))
          /\ wrapping_shl(1, call.tile.lod) = 2^call.tile.lod

----------------------------------------------------------------------------
(* Snapping to the grid and projecting to a side (SpecSnap).               *)

\* C26: for every coordinate, origin lod and target side, projecting the
\* snapped coordinate to the side gives the same coordinate as snapping the
\* projected coordinate, and that coordinate is a point of the grid of the
\* origin lod within half a tile of the projected coordinate in each
\* component.
C26_SnapCommutesWithProjection ==
    call.op = "origin_coordinate"
    => \A f \in 0..5 :
          LET projected == project_to_side(call.coordinate, f)
              origin == project_to_side(call.ret, f)
          IN /\ origin = origin_coordinate(projected, call.origin_lod)
             /\ OnGrid(origin.st.x, call.origin_lod)
             /\ OnGrid(origin.st.y, call.origin_lod)
             /\ WithinHalfTile(FSub(origin.st.x, projected.st.x), call.origin_lod)
             /\ WithinHalfTile(FSub(origin.st.y, projected.st.y), call.origin_lod)

\* a coordinate off the grid of the lod has been snapped, one component up
\* and the other down
C26_Witness ==
    /\ call.op = "origin_coordinate"
    /\ call.origin_lod = 1
    /\ call.ret.st.x > call.coordinate.st.x
    /\ call.ret.st.y < call.coordinate.st.y

====
